---- MODULE Spec2Model ----
(***************************************************************************)
(* Model of pandas_business.cohorts: the cohort() DataFrame method, the    *)
(* two generators it drains (cohort_granularity_metrics, cohort_metrics),  *)
(* the bucketing helpers and the groupby aggregation of cohort_base.       *)
(*                                                                         *)
(* A DataFrame is a sequence of rows; a row is [index, cells] where cells  *)
(* maps a column name to a cell.  A cell is <<>> (NaN / NaT) or <<v>>.     *)
(* A Timestamp is [year, month, day, hour].  Period labels are the strings *)
(* the code builds ("2020-01"); the datetime.date of create_date is        *)
(* written in its ISO form ("2020-01-05").                                 *)
(***************************************************************************)
EXTENDS Integers, Sequences, FiniteSets, TLC

VARIABLES
    df,                     \* the caller's DataFrame object (shared by every generator)
    df_columns,             \* its column names
    cohort_event_cols,      \* argument of cohort()
    metrics,                \* argument of cohort(): sequence of [col, ops] (dict order)
    row_col_granularities,  \* argument of cohort()
    use_months,             \* argument of cohort()
    pc,                     \* "outer" | "inner" | "done" | "raised" | "idle"
    ci,                     \* cohort_granularity_metrics: position in cohort_event_cols
    gi,                     \* cohort_granularity_metrics: position in row_col_granularities
    mi,                     \* cohort_metrics: position in the (metric, operation) pairs
    df_,                    \* cohort(): the accumulated result
    error,                  \* the exception that ended the call, "" if none
    df0,                    \* history: the caller's rows when cohort() was called
    df_columns0,            \* history: the caller's columns when cohort() was called
    members,                \* history: per row of df_, the indexes of the rows aggregated
    origin,                 \* history: per row of df_, the loop position <<ci, gi, mi>>
    probe                   \* a direct call of calculate_diff_between_dates

vars == <<df, df_columns, cohort_event_cols, metrics, row_col_granularities,
          use_months, pc, ci, gi, mi, df_, error, df0, df_columns0, members,
          origin, probe>>

(***************************************************************************)
(* Bounds of the model.                                                    *)
(***************************************************************************)
MaxRows == 2
MaxPairs == 2

(***************************************************************************)
(* Cells.                                                                  *)
(***************************************************************************)
Null == <<>>

Some(v) == <<v>>

notnull(c) == c # Null

Val(c) == c[1]

(***************************************************************************)
(* datetime arithmetic (proleptic Gregorian calendar).                     *)
(***************************************************************************)
Timestamp(y, m, d, h) == [year |-> y, month |-> m, day |-> d, hour |-> h]

IsLeap(y) == (y % 4 = 0) /\ ((y % 100 # 0) \/ (y % 400 = 0))

DaysInMonth(y, m) ==
    IF m = 2 THEN (IF IsLeap(y) THEN 29 ELSE 28)
    ELSE IF m \in {4, 6, 9, 11} THEN 30 ELSE 31

RECURSIVE DaysBeforeMonth(_, _)
DaysBeforeMonth(y, m) ==
    IF m = 1 THEN 0 ELSE DaysBeforeMonth(y, m - 1) + DaysInMonth(y, m - 1)

DaysBeforeYear(y) ==
    (y - 1) * 365 + ((y - 1) \div 4) - ((y - 1) \div 100) + ((y - 1) \div 400)

ToOrdinal(t) == DaysBeforeYear(t.year) + DaysBeforeMonth(t.year, t.month) + t.day

\* (end_date - start_date).days: the timedelta is normalised so that its
\* days field is the floor of the exact difference.
TimedeltaDays(end_date, start_date) ==
    ((ToOrdinal(end_date) * 24 + end_date.hour)
        - (ToOrdinal(start_date) * 24 + start_date.hour)) \div 24

IntDivBy7_floor(x) == x \div 7

\* int(x / 7): true division, then truncation toward zero.
IntDivBy7(x) == IF x >= 0 THEN x \div 7 ELSE -((-x) \div 7)

Granularities == {"daily", "weekly", "monthly"}

calculate_diff_between_dates_no_monthly(granularity, end_date, start_date) ==
    IF granularity \notin {"daily", "weekly"}
    THEN [raised |-> "UnboundLocalError", value |-> Null]
    ELSE IF (~notnull(end_date)) \/ (~notnull(start_date))
    THEN IF granularity = "weekly"
         THEN [raised |-> "ValueError", value |-> Null]
         ELSE [raised |-> "", value |-> Null]
    ELSE IF granularity = "daily"
    THEN [raised |-> "", value |-> Some(TimedeltaDays(Val(end_date), Val(start_date)))]
    ELSE [raised |-> "",
          value |-> Some(IntDivBy7(TimedeltaDays(Val(end_date), Val(start_date))))]

\* The arguments are cells of a row.  No branch assigns diff for an unknown
\* granularity, so "return diff" raises UnboundLocalError.  On NaT the
\* subtraction and the year/month fields give NaN, and int(NaN) raises.
calculate_diff_between_dates(granularity, end_date, start_date) ==
    IF granularity \notin Granularities
    THEN [raised |-> "UnboundLocalError", value |-> Null]
    ELSE IF (~notnull(end_date)) \/ (~notnull(start_date))
    THEN IF granularity = "weekly"
         THEN [raised |-> "ValueError", value |-> Null]
         ELSE [raised |-> "", value |-> Null]
    ELSE IF granularity = "daily"
    THEN [raised |-> "", value |-> Some(TimedeltaDays(Val(end_date), Val(start_date)))]
    ELSE IF granularity = "weekly"
    THEN [raised |-> "",
          value |-> Some(IntDivBy7(TimedeltaDays(Val(end_date), Val(start_date))))]
    ELSE [raised |-> "",
          value |-> Some((Val(end_date).year - Val(start_date).year) * 12
                         + Val(end_date).month - Val(start_date).month)]

(***************************************************************************)
(* Period labels.                                                          *)
(***************************************************************************)
\* strftime("%m"), strftime("%W"): two digits, zero padded.
TwoDigits(n) == IF n < 10 THEN "0" \o ToString(n) ELSE ToString(n)

\* strftime("%W"): week of the year, Monday first; the days before the
\* first Monday are week 0.
WeekOfYear(t) ==
    LET yday == ToOrdinal(t) - ToOrdinal(Timestamp(t.year, 1, 1, 0))
        wday == (ToOrdinal(t) + 6) % 7
    IN  (yday + 7 - wday) \div 7

YearMonthLabel(t) == ToString(t.year) \o "-" \o TwoDigits(t.month)

YearWeekLabel(t) == ToString(t.year) \o "-" \o TwoDigits(WeekOfYear(t))

DateLabel(t) ==
    ToString(t.year) \o "-" \o TwoDigits(t.month) \o "-" \o TwoDigits(t.day)


(***************************************************************************)
(* Python's order on the label strings.  The labels of one column all have *)
(* one format with zero-padded fields, "YYYY-NN" or "YYYY-MM-DD", so the   *)
(* string order is the order of the fields read back from the text.        *)
(***************************************************************************)
LabelYears == {2019, 2020}

YearNumberFields ==
    [s \in { ToString(y) \o "-" \o TwoDigits(n) : y \in LabelYears, n \in 0..53 } |->
        LET p == CHOOSE p \in LabelYears \X (0..53) :
                     s = ToString(p[1]) \o "-" \o TwoDigits(p[2])
        IN  <<p[1], p[2], 0>>]

DateFields ==
    [s \in { ToString(y) \o "-" \o TwoDigits(m) \o "-" \o TwoDigits(d) :
                y \in LabelYears, m \in 1..12, d \in 1..31 } |->
        CHOOSE p \in LabelYears \X (1..12) \X (1..31) :
            s = ToString(p[1]) \o "-" \o TwoDigits(p[2]) \o "-" \o TwoDigits(p[3])]

LabelFields(s) ==
    IF s \in DOMAIN YearNumberFields THEN YearNumberFields[s] ELSE DateFields[s]

TupleLess(a, b) ==
    \/ a[1] < b[1]
    \/ a[1] = b[1] /\ a[2] < b[2]
    \/ a[1] = b[1] /\ a[2] = b[2] /\ a[3] < b[3]

StrLess(a, b) == TupleLess(LabelFields(a), LabelFields(b))

(***************************************************************************)
(* DataFrame operations.                                                   *)
(***************************************************************************)
Indexes(d) == { d[i].index : i \in 1..Len(d) }

RowAt(d, idx) == d[CHOOSE i \in 1..Len(d) : d[i].index = idx]

\* df[col] = Series: the column is added or overwritten on every row.
SetColumn(d, col, values) ==
    [i \in 1..Len(d) |-> [d[i] EXCEPT !.cells = (col :> values[i]) @@ d[i].cells]]

\* A scalar assigned to a column is broadcast to every row.
Broadcast(d, v) == [i \in 1..Len(d) |-> v]

HasNoNull_unchecked(r, subset) == TRUE

\* The null test of dropna(subset=...) and of groupby's keys (NaN keys are
\* left out of every group).
HasNoNull(r, subset) == \A c \in subset : notnull(r.cells[c])

dropna_how_all(d, subset) ==
    LET Keep(r) == \E c \in subset : notnull(r.cells[c])
    IN  SelectSeq(d, Keep)

\* df.dropna(subset=[...], inplace=True): keeps the rows with no null in subset.
dropna(d, subset) ==
    LET Keep(r) == HasNoNull(r, subset)
    IN  SelectSeq(d, Keep)

\* The label is assigned where mask (notnull) holds; the other rows get NaN.
create_year_month(d, date_col, new_col) ==
    LET F(r) == IF notnull(r.cells[date_col])
                THEN Some(YearMonthLabel(Val(r.cells[date_col])))
                ELSE Null
    IN  SetColumn(d, new_col, [i \in 1..Len(d) |-> F(d[i])])

create_year_week(d, date_col, new_col) ==
    LET F(r) == IF notnull(r.cells[date_col])
                THEN Some(YearWeekLabel(Val(r.cells[date_col])))
                ELSE Null
    IN  SetColumn(d, new_col, [i \in 1..Len(d) |-> F(d[i])])

create_date(d, date_col, new_col) ==
    LET F(r) == IF notnull(r.cells[date_col])
                THEN Some(DateLabel(Val(r.cells[date_col])))
                ELSE Null
    IN  SetColumn(d, new_col, [i \in 1..Len(d) |-> F(d[i])])

UseMonthsDateCol_cohort_event(cohort_event_col, transaction_event_col) ==
    cohort_event_col

\* The column create_year_month labels when use_months is set.
UseMonthsDateCol(cohort_event_col, transaction_event_col) == transaction_event_col

\* Returns [raised, df, columns]: the first row whose
\* calculate_diff_between_dates raises ends df.apply.
add_cohort_granularity_cols(d, columns, cohort_event_col, transaction_event_col, cohort_row_granularity, cohort_column_granularity, use_months_) ==
    LET Diff(r) == calculate_diff_between_dates(
                       cohort_column_granularity,
                       r.cells[transaction_event_col], r.cells[cohort_event_col])
        bad == { i \in 1..Len(d) : Diff(d[i]).raised # "" }
        DiffValue(r) == Diff(r).value
        d1 == SetColumn(d, "cohort_column", [i \in 1..Len(d) |-> DiffValue(d[i])])
        d2 == IF use_months_
              THEN create_year_month(
                       d1, UseMonthsDateCol(cohort_event_col, transaction_event_col),
                       "cohort_column")
              ELSE d1
        d3 == IF cohort_row_granularity = "monthly"
              THEN create_year_month(d2, cohort_event_col, "cohort_row")
              ELSE IF cohort_row_granularity = "weekly"
              THEN create_year_week(d2, cohort_event_col, "cohort_row")
              ELSE IF cohort_row_granularity = "daily"
              THEN create_date(d2, cohort_event_col, "cohort_row")
              ELSE d2
    IN  IF bad # {}
        THEN [raised |-> Diff(d[CHOOSE i \in bad : \A j \in bad : i <= j]).raised,
              df |-> d, columns |-> columns]
        ELSE [raised |-> "", df |-> d3,
              columns |-> columns \cup {"cohort_column"}
                          \cup (IF cohort_row_granularity \in Granularities
                                THEN {"cohort_row"} ELSE {})]

(***************************************************************************)
(* cohort_base: groupby(...).agg(...).reset_index().rename(...).           *)
(***************************************************************************)
GroupKeys == <<"cohort_row", "cohort_column", "cohort_event", "row_granularity",
               "col_granularity", "metric_name">>

KeyOf(r) == [k \in 1..Len(GroupKeys) |-> r.cells[GroupKeys[k]]]

\* The order groupby sorts its keys in.  cohort_column holds labels when
\* use_months is set and integers otherwise; the last four keys are the
\* same on every row.  A NaN key sorts last.
CellLess(a, b, labels) ==
    IF ~notnull(a) THEN FALSE
    ELSE IF ~notnull(b) THEN TRUE
    ELSE IF labels THEN StrLess(Val(a), Val(b)) ELSE Val(a) < Val(b)

KeyLess(a, b, labels) ==
    \/ CellLess(a[1], b[1], TRUE)
    \/ a[1] = b[1] /\ CellLess(a[2], b[2], labels)

RECURSIVE SortKeys(_, _)
SortKeys(S, labels) ==
    IF S = {} THEN <<>>
    ELSE LET m == CHOOSE k \in S : \A o \in S \ {k} : KeyLess(k, o, labels)
         IN  <<m>> \o SortKeys(S \ {m}, labels)

Gcd(a, b) == CHOOSE g \in 1..a : a % g = 0 /\ b % g = 0
                                 /\ \A h \in (g + 1)..a : ~(a % h = 0 /\ b % h = 0)

\* A mean is the exact fraction [num, den] in lowest terms.
Fraction(n, d) == [num |-> n \div Gcd(d, n), den |-> d \div Gcd(d, n)]

RECURSIVE Sum(_)
Sum(s) == IF s = <<>> THEN 0 ELSE Head(s) + Sum(Tail(s))

Max(s) == CHOOSE x \in { s[i] : i \in 1..Len(s) } : \A i \in 1..Len(s) : s[i] <= x

Aggregate_mean_as_sum(metric_operation, values) ==
    CASE metric_operation = "sum" -> Sum(values)
      [] metric_operation = "mean" -> Fraction(Sum(values), 1)
      [] metric_operation = "count" -> Len(values)
      [] metric_operation = "max" -> Max(values)

\* .agg({metric_target_col: metric_operation}) on the values of one group.
Aggregate(metric_operation, values) ==
    CASE metric_operation = "sum" -> Sum(values)
      [] metric_operation = "mean" -> Fraction(Sum(values), Len(values))
      [] metric_operation = "count" -> Len(values)
      [] metric_operation = "max" -> Max(values)

\* Returns [raised, table, members]: one row per group, in key order, and
\* the indexes of the rows of each group.
cohort_base(d, columns, labels, metric_target_col, metric_operation) ==
    LET keycols == { GroupKeys[k] : k \in 1..Len(GroupKeys) }
        InGroups(r) == HasNoNull(r, keycols)
        grouped == SelectSeq(d, InGroups)
        keys == SortKeys({ KeyOf(grouped[i]) : i \in 1..Len(grouped) }, labels)
        Group(key) == LET Same(r) == KeyOf(r) = key IN SelectSeq(grouped, Same)
        Values(g) == [i \in 1..Len(g) |-> Val(g[i].cells[metric_target_col])]
    IN  IF ~((keycols \cup {metric_target_col}) \subseteq columns)
        THEN [raised |-> "KeyError", table |-> <<>>, members |-> <<>>]
        ELSE [raised |-> "",
              table |-> [k \in 1..Len(keys) |->
                            [cohort_row |-> keys[k][1],
                             cohort_column |-> keys[k][2],
                             cohort_event |-> keys[k][3],
                             row_granularity |-> keys[k][4],
                             col_granularity |-> keys[k][5],
                             metric_name |-> keys[k][6],
                             metric_value |->
                                 Some(Aggregate(metric_operation,
                                                Values(Group(keys[k]))))]],
              members |-> [k \in 1..Len(keys) |-> Indexes(Group(keys[k]))]]

(***************************************************************************)
(* The calls of cohort() the model explores.                               *)
(***************************************************************************)
transaction_event_col == "unsubscribed_at"

\* The table of tests/test_business.py.
RefRow(i, subscribed_month, unsubscribed_month, life) ==
    [index |-> i,
     cells |-> [month_subscribed |-> Some(Timestamp(2020, subscribed_month, 1, 0)),
                unsubscribed_at |-> Some(Timestamp(2020, unsubscribed_month, 1, 0)),
                client_life |-> Some(life)]]

RefTable ==
    <<RefRow(0, 1, 3, 2), RefRow(1, 1, 3, 2), RefRow(2, 1, 4, 3),
      RefRow(3, 2, 3, 1), RefRow(4, 2, 3, 1), RefRow(5, 2, 4, 2)>>

RefColumns == {"month_subscribed", "unsubscribed_at", "client_life"}

RefMetrics == <<[col |-> "client_life", ops |-> <<"mean">>]>>

\* Other tables: up to MaxRows rows with two cohort-event columns, each
\* instant possibly missing.
SubscribedSamples ==
    <<Timestamp(2020, 1, 1, 0), Timestamp(2020, 1, 20, 12), Timestamp(2019, 12, 30, 0)>>

PurchaseSamples ==
    <<Timestamp(2020, 2, 10, 0), Timestamp(2020, 3, 12, 12), Timestamp(2019, 12, 31, 12)>>

UnsubscribedSamples ==
    <<Timestamp(2020, 3, 1, 0), Timestamp(2020, 3, 2, 0), Timestamp(2020, 4, 1, 12)>>

Sample(samples, i) == samples[(i % Len(samples)) + 1]

\* The instants a generated row may lack: none, or one of the three.
NullPatterns == {{}, {"month_subscribed"}, {"first_purchase"}, {"unsubscribed_at"}}

GenRow(i, nulls) ==
    LET At(col, samples) == IF col \in nulls THEN Null ELSE Some(Sample(samples, i))
    IN  [index |-> i,
         cells |-> [month_subscribed |-> At("month_subscribed", SubscribedSamples),
                    first_purchase |-> At("first_purchase", PurchaseSamples),
                    unsubscribed_at |-> At("unsubscribed_at", UnsubscribedSamples),
                    client_life |-> Some(i + 1),
                    billing |-> Some(10 - i)]]

GenColumns ==
    {"month_subscribed", "first_purchase", "unsubscribed_at", "client_life", "billing"}

GenTables ==
    UNION { { [i \in 1..n |-> GenRow(i - 1, p[i])] : p \in [1..n -> NullPatterns] }
            : n \in 0..MaxRows }

GenColLists ==
    {<<>>, <<"month_subscribed">>, <<"first_purchase">>,
     <<"month_subscribed", "first_purchase">>,
     <<"first_purchase", "month_subscribed">>}

GenMetrics ==
    {<<>>,
     <<[col |-> "client_life", ops |-> <<"sum", "mean">>],
       [col |-> "billing", ops |-> <<"max">>]>>}

\* Granularity pairs, some outside {"daily", "weekly", "monthly"}.
GranularityPairs ==
    {<<"monthly", "monthly">>, <<"weekly", "daily">>, <<"daily", "weekly">>,
     <<"yearly", "monthly">>, <<"monthly", "hourly">>}

\* Lists of up to MaxPairs different pairs.
PairLists ==
    UNION { { l \in [1..n -> GranularityPairs] :
                \A i \in 1..n, j \in 1..n : l[i] = l[j] => i = j }
            : n \in 0..MaxPairs }

Called(table, columns) ==
    /\ df = table
    /\ df_columns = columns
    /\ df0 = table
    /\ df_columns0 = columns
    /\ row_col_granularities \in PairLists
    /\ use_months \in BOOLEAN
    /\ pc = "outer"
    /\ ci = 1
    /\ gi = 1
    /\ mi = 1
    /\ df_ = <<>>
    /\ error = ""
    /\ members = <<>>
    /\ origin = <<>>
    /\ probe = [pc |-> "none"]

Init ==
    /\ \/ /\ cohort_event_cols \in {<<>>, <<"month_subscribed">>}
          /\ metrics \in {<<>>, RefMetrics}
          /\ Called(RefTable, RefColumns)
       \/ /\ cohort_event_cols \in GenColLists
          /\ metrics \in GenMetrics
          /\ \E t \in GenTables : Called(t, GenColumns)

(***************************************************************************)
(* cohort_granularity_metrics: one iteration of its loops per resumption   *)
(* by cohort()'s "for i in iterator".                                      *)
(***************************************************************************)
cohort_event_col == cohort_event_cols[ci]

row_granularity == row_col_granularities[gi][1]

col_granularity == row_col_granularities[gi][2]

OuterExhausted == ci > Len(cohort_event_cols) \/ row_col_granularities = <<>>

\* df.dropna(subset=[cohort_event_col, transaction_event_col], inplace=True)
Dropped == dropna(df, {cohort_event_col, transaction_event_col})

WithCohortCols ==
    add_cohort_granularity_cols(Dropped, df_columns, cohort_event_col,
                                transaction_event_col, row_granularity,
                                col_granularity, use_months)

\* df_temp["cohort_event"] = ...; ["row_granularity"] = ...; ["col_granularity"] = ...
TagRows(d, columns, event, row_g, col_g) ==
    LET d1 == SetColumn(d, "cohort_event", Broadcast(d, Some(event)))
        d2 == SetColumn(d1, "row_granularity", Broadcast(d, Some(row_g)))
    IN  SetColumn(d2, "col_granularity", Broadcast(d, Some(col_g)))

AdvanceOuter ==
    IF gi < Len(row_col_granularities)
    THEN ci' = ci /\ gi' = gi + 1
    ELSE ci' = ci + 1 /\ gi' = 1

\* len(df) == 0 after the drop: continue.
cohort_granularity_metrics_continue ==
    /\ pc = "outer"
    /\ ~OuterExhausted
    /\ Len(Dropped) = 0
    /\ df' = Dropped
    /\ AdvanceOuter
    /\ UNCHANGED <<df_columns, cohort_event_cols, metrics, row_col_granularities,
                   use_months, pc, mi, df_, error, df0, df_columns0, members,
                   origin, probe>>

\* The bucket and tag columns are written on the shared table, and a
\* cohort_metrics generator over it is yielded.
cohort_granularity_metrics_yield ==
    /\ pc = "outer"
    /\ ~OuterExhausted
    /\ Len(Dropped) > 0
    /\ LET r == WithCohortCols
       IN  /\ r.raised = ""
           /\ df' = TagRows(r.df, r.columns, cohort_event_col,
                            row_granularity, col_granularity)
           /\ df_columns' = r.columns
                   \cup {"cohort_event", "row_granularity", "col_granularity"}
    /\ pc' = "inner"
    /\ mi' = 1
    /\ UNCHANGED <<cohort_event_cols, metrics, row_col_granularities, use_months,
                   ci, gi, df_, error, df0, df_columns0, members, origin, probe>>

\* calculate_diff_between_dates raises inside df.apply: cohort() ends with
\* the exception, the rows already dropped.
cohort_granularity_metrics_raise ==
    /\ pc = "outer"
    /\ ~OuterExhausted
    /\ Len(Dropped) > 0
    /\ WithCohortCols.raised # ""
    /\ df' = Dropped
    /\ pc' = "raised"
    /\ error' = WithCohortCols.raised
    /\ UNCHANGED <<df_columns, cohort_event_cols, metrics, row_col_granularities,
                   use_months, ci, gi, mi, df_, df0, df_columns0, members, origin,
                   probe>>

\* StopIteration: cohort() returns df_.
cohort_return ==
    /\ pc = "outer"
    /\ OuterExhausted
    /\ pc' = "done"
    /\ UNCHANGED <<df, df_columns, cohort_event_cols, metrics,
                   row_col_granularities, use_months, ci, gi, mi, df_, error,
                   df0, df_columns0, members, origin, probe>>

(***************************************************************************)
(* cohort_metrics: one (metric, operation) per resumption by cohort()'s    *)
(* "for df_temp in i", which concatenates what it yields.                  *)
(***************************************************************************)
RECURSIVE MetricOps(_)
\* metrics.items() and each list of operations, in loop order.
MetricOps(m) ==
    IF m = <<>> THEN <<>>
    ELSE [k \in 1..Len(Head(m).ops) |-> [col |-> Head(m).col, op |-> Head(m).ops[k]]]
         \o MetricOps(Tail(m))

MetricName(metric_target_col, metric_operation) ==
    metric_target_col \o "_" \o metric_operation

Named ==
    LET m == MetricOps(metrics)[mi]
    IN  SetColumn(df, "metric_name", Broadcast(df, Some(MetricName(m.col, m.op))))

Aggregated ==
    cohort_base(Named, df_columns \cup {"metric_name"},
                use_months,
                MetricOps(metrics)[mi].col, MetricOps(metrics)[mi].op)

cohort_metrics_yield ==
    /\ pc = "inner"
    /\ mi <= Len(MetricOps(metrics))
    /\ LET r == Aggregated
       IN  /\ r.raised = ""
           /\ df_' = df_ \o r.table
           /\ members' = members \o r.members
           /\ origin' = origin \o [k \in 1..Len(r.table) |-> <<ci, gi, mi>>]
    /\ df' = Named
    /\ df_columns' = df_columns \cup {"metric_name"}
    /\ mi' = mi + 1
    /\ UNCHANGED <<cohort_event_cols, metrics, row_col_granularities, use_months,
                   pc, ci, gi, error, df0, df_columns0, probe>>

\* groupby raises KeyError for a key column the table does not have.
cohort_metrics_raise ==
    /\ pc = "inner"
    /\ mi <= Len(MetricOps(metrics))
    /\ Aggregated.raised # ""
    /\ df' = Named
    /\ df_columns' = df_columns \cup {"metric_name"}
    /\ pc' = "raised"
    /\ error' = Aggregated.raised
    /\ UNCHANGED <<cohort_event_cols, metrics, row_col_granularities, use_months,
                   ci, gi, mi, df_, df0, df_columns0, members, origin, probe>>

\* The inner generator is exhausted: the outer one is resumed after its yield.
cohort_metrics_exhausted ==
    /\ pc = "inner"
    /\ mi > Len(MetricOps(metrics))
    /\ pc' = "outer"
    /\ AdvanceOuter
    /\ UNCHANGED <<df, df_columns, cohort_event_cols, metrics,
                   row_col_granularities, use_months, mi, df_, error, df0,
                   df_columns0, members, origin, probe>>

Next ==
    \/ cohort_granularity_metrics_continue
    \/ cohort_granularity_metrics_yield
    \/ cohort_granularity_metrics_raise
    \/ cohort_return
    \/ cohort_metrics_yield
    \/ cohort_metrics_raise
    \/ cohort_metrics_exhausted

Spec == Init /\ [][Next]_vars

(***************************************************************************)
(* A direct call of calculate_diff_between_dates on two instants, once per *)
(* granularity.                                                            *)
(***************************************************************************)
ProbeInstants ==
    { Timestamp(y, m, d, h) : y \in {2019, 2020}, m \in {1, 2, 12},
                              d \in {1, 9, 20, 28}, h \in {0, 12} }

NoCohortCall ==
    /\ df = <<>>
    /\ df_columns = {}
    /\ df0 = <<>>
    /\ df_columns0 = {}
    /\ cohort_event_cols = <<>>
    /\ metrics = <<>>
    /\ row_col_granularities = <<>>
    /\ use_months = FALSE
    /\ pc = "idle"
    /\ ci = 1
    /\ gi = 1
    /\ mi = 1
    /\ df_ = <<>>
    /\ error = ""
    /\ members = <<>>
    /\ origin = <<>>

InitElapsed ==
    /\ NoCohortCall
    /\ \E e \in ProbeInstants, s \in ProbeInstants :
           probe = [pc |-> "args", end_date |-> e, start_date |-> s,
                    daily |-> Null, weekly |-> Null, monthly |-> Null]

ProbeCall(granularity) ==
    /\ probe.pc = "args"
    /\ ~notnull(probe[granularity])
    /\ probe' = [probe EXCEPT ![granularity] =
                    calculate_diff_between_dates(
                        granularity, Some(probe.end_date), Some(probe.start_date)).value]
    /\ UNCHANGED <<df, df_columns, cohort_event_cols, metrics, row_col_granularities,
                   use_months, pc, ci, gi, mi, df_, error, df0, df_columns0,
                   members, origin>>

ProbeDaily == ProbeCall("daily")

ProbeWeekly == ProbeCall("weekly")

ProbeMonthly == ProbeCall("monthly")

NextElapsed == ProbeDaily \/ ProbeWeekly \/ ProbeMonthly

SpecElapsed == InitElapsed /\ [][NextElapsed]_vars

(***************************************************************************)
(* Properties.                                                             *)
(***************************************************************************)
Row0(idx) == RowAt(df0, idx)

OriginCol(k) == cohort_event_cols[origin[k][1]]

OriginPair(k) == row_col_granularities[origin[k][2]]

OriginMetric(k) == MetricOps(metrics)[origin[k][3]]

Documented(pair) == pair[1] \in Granularities /\ pair[2] \in Granularities

AllPairsDocumented ==
    \A i \in 1..Len(row_col_granularities) : Documented(row_col_granularities[i])

RefCall ==
    /\ df0 = RefTable
    /\ cohort_event_cols = <<"month_subscribed">>
    /\ metrics = RefMetrics
    /\ row_col_granularities = << <<"monthly", "monthly">> >>
    /\ use_months = FALSE

RefOut(row, col, mean) ==
    [cohort_row |-> Some(row), cohort_column |-> Some(col),
     cohort_event |-> Some("month_subscribed"),
     row_granularity |-> Some("monthly"), col_granularity |-> Some("monthly"),
     metric_name |-> Some("client_life_mean"),
     metric_value |-> Some([num |-> mean, den |-> 1])]

\* C1: on the reference table with month_subscribed, unsubscribed_at,
\* {"client_life": ["mean"]}, [("monthly", "monthly")] and use_months false,
\* cohort() raises nothing and returns exactly the four rows ("2020-01", 2)
\* -> 2, ("2020-01", 3) -> 3, ("2020-02", 1) -> 1, ("2020-02", 2) -> 2, each
\* named client_life_mean.
C1_ReferenceResult ==
    RefCall =>
        /\ pc # "raised"
        /\ pc = "done" =>
              df_ = <<RefOut("2020-01", 2, 2), RefOut("2020-01", 3, 3),
                      RefOut("2020-02", 1, 1), RefOut("2020-02", 2, 2)>>

C1_Witness == RefCall /\ pc = "done" /\ Len(df_) = 4

\* C2: cohort() never mutates the caller's table: it keeps the rows and the
\* columns it had when cohort() was called.
C2_CallerTableNotMutated == df = df0 /\ df_columns = df_columns0

\* C3: the working table of every combination (cohort-event column C,
\* granularity pair) is the input table minus the rows whose C or
\* transaction-event value is null, whatever the other cohort-event columns
\* hold and wherever C stands in cohort_event_cols.
C3_WorkingTableIsInputMinusNulls ==
    pc = "inner" =>
        Indexes(df) = { df0[i].index : i \in { j \in 1..Len(df0) :
                            HasNoNull(df0[j], {cohort_event_col, transaction_event_col}) } }

\* C4: no input row whose C value or transaction-event value is null is among
\* the rows aggregated into a row of the returned table tagged cohort_event = C.
C4_NullRowsNeverContribute ==
    pc = "done" =>
        \A k \in 1..Len(df_) : \A idx \in members[k] :
            /\ notnull(Row0(idx).cells[Val(df_[k].cohort_event)])
            /\ notnull(Row0(idx).cells[transaction_event_col])

C4_Witness ==
    /\ pc = "done"
    /\ \E k \in 1..Len(df_) : \E i \in 1..Len(df0) :
           /\ ~notnull(df0[i].cells[Val(df_[k].cohort_event)])
           /\ members[k] # {}

\* C5: a granularity pair with a row or column granularity other than
\* "daily", "weekly", "monthly" never yields rows of a returned result table
\* (the call fails instead).
C5_NoResultForUnknownGranularity ==
    pc = "done" =>
        \A k \in 1..Len(df_) :
            /\ Val(df_[k].row_granularity) \in Granularities
            /\ Val(df_[k].col_granularity) \in Granularities

\* C6: the groups the aggregator produces for one combination and one
\* metric/operation partition its working table: the groups are disjoint,
\* every row of the working table is in one, and the group sizes sum to the
\* table's row count.
Block(m) == { k \in 1..Len(df_) : origin[k] = <<ci, gi, m>> }

RECURSIVE SumSizes(_)
SumSizes(ks) ==
    IF ks = {} THEN 0
    ELSE LET k == CHOOSE x \in ks : TRUE
         IN  Cardinality(members[k]) + SumSizes(ks \ {k})

C6_GroupsPartitionWorkingTable ==
    pc = "inner" =>
        \A m \in 1..(mi - 1) :
            /\ \A k \in Block(m) : members[k] # {}
            /\ \A k1 \in Block(m), k2 \in Block(m) :
                   k1 # k2 => members[k1] \cap members[k2] = {}
            /\ UNION { members[k] : k \in Block(m) } = Indexes(df)
            /\ SumSizes(Block(m)) = Len(df)

C6_Witness ==
    /\ pc = "inner"
    /\ mi > 1
    /\ Cardinality(Block(1)) >= 2
    /\ \E k \in Block(1) : Cardinality(members[k]) >= 2

C8_EmptyArgumentsNeverRaise ==
    (\/ row_col_granularities = <<>>
     \/ cohort_event_cols = <<>>
     \/ metrics = <<>>)
        => pc # "raised" /\ df_ = <<>>

\* C8 amended: with no metrics, no granularity pairs or no cohort-event
\* columns, the result of cohort() has no rows; it raises nothing when the
\* pairs or the columns are empty, and, when only the metrics are empty,
\* when every granularity given is "daily", "weekly" or "monthly".
C8_EmptyArgumentsGiveEmptyResult ==
    /\ (\/ row_col_granularities = <<>>
        \/ cohort_event_cols = <<>>
        \/ metrics = <<>>) => df_ = <<>>
    /\ (\/ row_col_granularities = <<>>
        \/ cohort_event_cols = <<>>
        \/ metrics = <<>> /\ AllPairsDocumented) => pc # "raised"

C8_Witness ==
    /\ pc = "done"
    /\ metrics = <<>>
    /\ AllPairsDocumented
    /\ Len(row_col_granularities) >= 2
    /\ Len(cohort_event_cols) >= 2
    /\ Len(df0) >= 2
    /\ Len(df) >= 1

\* C9: elapsed("weekly", B, A) is elapsed("daily", B, A) divided by 7 and
\* truncated toward zero: the remainder is smaller than 7 in size and never
\* of the opposite sign.
C9_WeeklyIsDailyTruncated ==
    (probe.pc = "args" /\ notnull(probe.daily) /\ notnull(probe.weekly)) =>
        LET d == Val(probe.daily)
            w == Val(probe.weekly)
            r == d - 7 * w
        IN  /\ r \in -6..6
            /\ d >= 0 => r >= 0
            /\ d <= 0 => r <= 0

C9_Witness ==
    /\ probe.pc = "args"
    /\ notnull(probe.daily)
    /\ notnull(probe.weekly)
    /\ Val(probe.daily) < -7
    /\ Val(probe.daily) % 7 # 0
    /\ probe.end_date.hour # probe.start_date.hour

\* C10: every row of the returned table carries the tags of the combination
\* at whose loop position it was aggregated, its cohort_row and cohort_column
\* are the buckets of that combination's row and column granularity, its
\* value is that operation on the rows it aggregates, and the rows of the
\* result follow the loop order (cohort-event column, granularity pair,
\* metric, operation).
RowLabel(granularity, t) ==
    CASE granularity = "monthly" -> YearMonthLabel(t)
      [] granularity = "weekly" -> YearWeekLabel(t)
      [] granularity = "daily" -> DateLabel(t)

MemberValues(k) ==
    LET In(r) == r.index \in members[k]
        rows == SelectSeq(df0, In)
    IN  [i \in 1..Len(rows) |-> Val(rows[i].cells[OriginMetric(k).col])]

LoopOrder(a, b) ==
    \/ a[1] < b[1]
    \/ a[1] = b[1] /\ a[2] < b[2]
    \/ a[1] = b[1] /\ a[2] = b[2] /\ a[3] <= b[3]

C10_RowsMatchTheirCombination ==
    pc = "done" =>
    /\ \A k \in 1..Len(df_) :
        /\ df_[k].cohort_event = Some(OriginCol(k))
        /\ df_[k].row_granularity = Some(OriginPair(k)[1])
        /\ df_[k].col_granularity = Some(OriginPair(k)[2])
        /\ df_[k].metric_name
               = Some(OriginMetric(k).col \o "_" \o OriginMetric(k).op)
        /\ members[k] # {}
        /\ \A idx \in members[k] :
            /\ OriginPair(k)[1] \in Granularities
            /\ df_[k].cohort_row
                   = Some(RowLabel(OriginPair(k)[1],
                                   Val(Row0(idx).cells[OriginCol(k)])))
            /\ df_[k].cohort_column
                   = IF use_months
                     THEN Some(YearMonthLabel(
                                   Val(Row0(idx).cells[transaction_event_col])))
                     ELSE calculate_diff_between_dates(
                              OriginPair(k)[2],
                              Row0(idx).cells[transaction_event_col],
                              Row0(idx).cells[OriginCol(k)]).value
        /\ df_[k].metric_value = Some(Aggregate(OriginMetric(k).op, MemberValues(k)))
    /\ \A k \in 1..(Len(df_) - 1) : LoopOrder(origin[k], origin[k + 1])

====
